---- MODULE Spec2Model ----
(***************************************************************************)
(* Timing, reconciliation, subtitle-cue, path and assembly-pipeline logic  *)
(* of the wiki video generator (video_creator.py, fix-subtitles.py,        *)
(* pixabay_image_fetcher.py, test_video_creator.py).                       *)
(*                                                                         *)
(* Text is a sequence of one-character strings.  Python floats are modelled*)
(* as exact rationals <<n, d>> (d > 0, lowest terms): the model has no     *)
(* binary rounding, so a statement "within 1 ms" is checked exactly.       *)
(***************************************************************************)
EXTENDS Integers, Sequences, FiniteSets, TLC

VARIABLES pc, script, probe, audio_duration, srt, cues, parsed,
          paragraphs, images, paragraph_durations,
          arg_paragraphs, arg_images, orig_images, seconds, rendered, result,
          mode,
          image_durations, manifest, fs, calls,
          runs, cwd_files,
          os_name, path, escaped, normalized, renormalized,
          attempt, success, final, no_title_cards, steps, segments

\* state of the three Stage-1..3 pipelines of video_creator.py
pipeVars == <<image_durations, manifest, fs, calls>>

\* state of the runs of fix-subtitles.py fix_video_subtitles
fixVars == <<runs, cwd_files>>

\* state of a call of escape_path_for_ffmpeg or of normalize_path
pathVars == <<os_name, path, escaped, normalized, renormalized>>

\* state of video_creator.main from the image search on
mainVars == <<attempt, success, final, no_title_cards, steps, segments>>

vars == <<pc, script, probe, audio_duration, srt, cues, parsed,
          paragraphs, images, paragraph_durations,
          arg_paragraphs, arg_images, orig_images, seconds, rendered, result,
          mode, pipeVars, fixVars, pathVars, mainVars>>

-----------------------------------------------------------------------------
(* Bounds of the model *)

MaxWords == 3

MaxChunks == 5

MaxImages == 4

\* components of a path
MaxDepth == 4

-----------------------------------------------------------------------------
(* Exact rational arithmetic standing for Python float arithmetic *)

RECURSIVE Gcd(_, _)
Gcd(a, b) == IF b = 0 THEN a ELSE Gcd(b, a % b)

Abs(x) == IF x < 0 THEN -x ELSE x

Rat(n, d) ==
    LET g == Gcd(Abs(n), d) IN <<n \div g, d \div g>>

Zero == <<0, 1>>

\* sums and products reduce by common factors first, so that intermediate
\* values stay small
RAdd(x, y) ==
    LET g == Gcd(x[2], y[2])
    IN Rat(x[1] * (y[2] \div g) + y[1] * (x[2] \div g), (x[2] \div g) * y[2])

RSub(x, y) == RAdd(x, <<-y[1], y[2]>>)

RMul(x, y) ==
    LET g1 == Gcd(Abs(x[1]), y[2])
        g2 == Gcd(Abs(y[1]), x[2])
    IN Rat((x[1] \div g1) * (y[1] \div g2), (x[2] \div g2) * (y[2] \div g1))

RLt(x, y) ==
    LET g == Gcd(x[2], y[2])
    IN x[1] * (y[2] \div g) < y[1] * (x[2] \div g)

RLe(x, y) ==
    LET g == Gcd(x[2], y[2])
    IN x[1] * (y[2] \div g) <= y[1] * (x[2] \div g)

-----------------------------------------------------------------------------
(* Characters and strings *)

NL == "\n"

Whitespace == {" ", NL}

SentenceEnd == {".", "!", "?"}

DigitChars == <<"0", "1", "2", "3", "4", "5", "6", "7", "8", "9">>

IsDigit(c) == \E i \in 1..10 : DigitChars[i] = c

DigitVal(c) == (CHOOSE i \in 1..10 : DigitChars[i] = c) - 1

Rep(c, n) == [i \in 1..n |-> c]

\* str(n) for n >= 0
RECURSIVE Digits(_)
Digits(n) == IF n < 10 THEN <<DigitChars[n + 1]>>
             ELSE Digits(n \div 10) \o <<DigitChars[(n % 10) + 1]>>

\* f"{n:0wd}": zero-padded to at least w characters, never cut
Pad(n, w) ==
    LET ds == Digits(n) IN
    IF Len(ds) >= w THEN ds ELSE Rep("0", w - Len(ds)) \o ds

\* int(s) of a digit string
RECURSIVE Num(_)
Num(s) == IF s = <<>> THEN 0
          ELSE 10 * Num(SubSeq(s, 1, Len(s) - 1)) + DigitVal(s[Len(s)])

\* the least element of the set S of integers, or dflt when S is empty
MinOf(S, dflt) ==
    IF S = {} THEN dflt ELSE CHOOSE i \in S : \A j \in S : i <= j

\* the greatest element of the set S of integers, or dflt when S is empty
MaxOf(S, dflt) ==
    IF S = {} THEN dflt ELSE 0 - MinOf({0 - i : i \in S}, 0)

\* first index >= i of s that is not whitespace (Len(s) + 1 when none)
WsRunEnd(s, i) ==
    MinOf({j \in i..Len(s) : s[j] \notin Whitespace}, Len(s) + 1)

\* first index >= i of s that is whitespace (Len(s) + 1 when none)
WordEnd(s, i) ==
    MinOf({j \in i..Len(s) : s[j] \in Whitespace}, Len(s) + 1)

\* str.strip()
Strip(s) ==
    LET NotWs == {j \in 1..Len(s) : s[j] \notin Whitespace}
    IN SubSeq(s, MinOf(NotWs, Len(s) + 1), MaxOf(NotWs, 0))

\* the total with one separator counted after every element
RECURSIVE SumLen_seps(_)
SumLen_seps(ps) ==
    IF ps = <<>> THEN 0 ELSE Len(ps[1]) + 1 + SumLen_seps(Tail(ps))

\* sum(len(p) for p in ps)
RECURSIVE SumLen(_)
SumLen(ps) == IF ps = <<>> THEN 0 ELSE Len(ps[1]) + SumLen(Tail(ps))

-----------------------------------------------------------------------------
(* format_time: HH:MM:SS,mmm *)

format_time_rounding(t) ==
    LET n == t[1]
        d == t[2]
        hours == n \div (3600 * d)
        minutes == (n % (3600 * d)) \div (60 * d)
        seconds_int == (n % (60 * d)) \div d
        milliseconds == ((n % d) * 1000 + d - 1) \div d
    IN Pad(hours, 2) \o <<":">> \o Pad(minutes, 2) \o <<":">>
       \o Pad(seconds_int, 2) \o <<",">> \o Pad(milliseconds, 3)

format_time(t) ==
    LET n == t[1]
        d == t[2]
        hours == n \div (3600 * d)
        minutes == (n % (3600 * d)) \div (60 * d)
        seconds_int == (n % (60 * d)) \div d
        milliseconds == ((n % d) * 1000) \div d
    IN Pad(hours, 2) \o <<":">> \o Pad(minutes, 2) \o <<":">>
       \o Pad(seconds_int, 2) \o <<",">> \o Pad(milliseconds, 3)

-----------------------------------------------------------------------------
(* Splitting text *)

\* re.split(r'(?<=[.!?])\s+', s) from index start on: a separator is a
\* whitespace run that follows a sentence-ending character
RECURSIVE SplitSentencesFrom(_, _)
SplitSentencesFrom(s, start) ==
    LET i == MinOf({j \in start..Len(s) :
                      s[j] \in Whitespace /\ j > 1 /\ s[j - 1] \in SentenceEnd},
                   0)
    IN IF i = 0 THEN <<SubSeq(s, start, Len(s))>>
       ELSE <<SubSeq(s, start, i - 1)>> \o SplitSentencesFrom(s, WsRunEnd(s, i))

SplitSentences(s) == SplitSentencesFrom(s, 1)

\* str.split(): the maximal runs of non-whitespace characters
RECURSIVE SplitWordsFrom(_, _)
SplitWordsFrom(s, i) ==
    LET b == WsRunEnd(s, i) IN
    IF b > Len(s) THEN <<>>
    ELSE LET e == WordEnd(s, b)
         IN <<SubSeq(s, b, e - 1)>> \o SplitWordsFrom(s, e)

SplitWords(s) == SplitWordsFrom(s, 1)

\* re.split('\r?\n\r?\n', s) from index start on: leftmost, non-overlapping
\* blank lines
RECURSIVE SplitBlocksFrom(_, _)
SplitBlocksFrom(s, start) ==
    LET i == MinOf({j \in start..(Len(s) - 1) : s[j] = NL /\ s[j + 1] = NL}, 0)
    IN IF i = 0 THEN <<SubSeq(s, start, Len(s))>>
       ELSE <<SubSeq(s, start, i - 1)>> \o SplitBlocksFrom(s, i + 2)

SplitBlocks(s) == SplitBlocksFrom(s, 1)

\* s.split('\n') from index start on
RECURSIVE SplitLinesFrom(_, _)
SplitLinesFrom(s, start) ==
    LET i == MinOf({j \in start..Len(s) : s[j] = NL}, 0)
    IN IF i = 0 THEN <<SubSeq(s, start, Len(s))>>
       ELSE <<SubSeq(s, start, i - 1)>> \o SplitLinesFrom(s, i + 1)

SplitLines(s) == SplitLinesFrom(s, 1)

\* '\n'.join(lines)
RECURSIVE JoinLines(_)
JoinLines(lines) ==
    IF lines = <<>> THEN <<>>
    ELSE IF Len(lines) = 1 THEN lines[1]
    ELSE lines[1] \o <<NL>> \o JoinLines(Tail(lines))

-----------------------------------------------------------------------------
(* Cue blocks: index line, timing line, text, blank line *)

Arrow == <<" ", "-", "-", ">", " ">>

\* the three f-string lines appended to subtitle_content for one cue
CueBlock(count, start, end, text) ==
    Digits(count) \o <<NL>>
    \o format_time(start) \o Arrow \o format_time(end) \o <<NL>>
    \o text \o <<NL, NL>>

RECURSIVE RenderFrom(_, _)
RenderFrom(cs, k) ==
    IF k > Len(cs) THEN <<>>
    ELSE CueBlock(k, cs[k].start, cs[k].end, cs[k].text) \o RenderFrom(cs, k + 1)

\* subtitle_content after the loop, for the cues the loop produced
Render(cs) == RenderFrom(cs, 1)

-----------------------------------------------------------------------------
(* fix-subtitles.py: create_subtitles_for_audio *)

CharsPerSecond == 15

\* A probe outcome: ok = FALSE when ffprobe (or float()) raises, else the
\* duration it printed.
ProbeFails == [ok |-> FALSE, dur |-> Zero]

ProbeGives(d) == [ok |-> TRUE, dur |-> d]

\* get_audio_duration: the probed value, 0 when the probe raises
get_audio_duration(p) == IF p.ok THEN p.dur ELSE Zero

\* audio_duration after the `if audio_duration <= 0` fallback
FixAudioDuration(text, p) ==
    LET d == get_audio_duration(p) IN
    IF RLe(d, Zero) THEN Rat(Len(text), CharsPerSecond) ELSE d

\* audio_duration * (len(chunk) / total_chars), truncating the ratio as an
\* integer division would
Duration_intdiv(D, n, total_chars) == RMul(D, Rat(n \div total_chars, 1))

\* char_ratio = len(chunk) / total_chars; duration = audio_duration * char_ratio
Duration(D, n, total_chars) == RMul(D, Rat(n, total_chars))

\* the for-loop over sentences: the cues from sentence k on, starting at
\* current_time
RECURSIVE FixCuesFrom(_, _, _, _, _)
FixCuesFrom(sentences, k, current_time, D, total_chars) ==
    IF k > Len(sentences) THEN <<>>
    ELSE IF Strip(sentences[k]) = <<>>
         THEN FixCuesFrom(sentences, k + 1, current_time, D, total_chars)
         ELSE LET duration == Duration(D, Len(sentences[k]), total_chars)
                  end_time == RAdd(current_time, duration)
              IN <<[start |-> current_time, end |-> end_time,
                    text |-> Strip(sentences[k])]>>
                 \o FixCuesFrom(sentences, k + 1, end_time, D, total_chars)

create_subtitles_for_audio(text, p) ==
    LET sentences == SplitSentences(text)
    IN FixCuesFrom(sentences, 1, Zero, FixAudioDuration(text, p),
                   SumLen(sentences))

-----------------------------------------------------------------------------
(* video_creator.py: generate_subtitles *)

MaxLineChars == 60

\* x / y for y > 0
RDiv(x, y) == RMul(x, <<y[2], y[1]>>)

\* chars_per_second after the try block
GenCharsPerSecond(text, p) ==
    IF p.ok /\ RLt(Zero, p.dur) /\ Len(text) > 0
    THEN RDiv(Rat(Len(text), 1), p.dur)
    ELSE Rat(CharsPerSecond, 1)

\* a cue for `line`, as lines 361-362 and 376-377 time it
GenCue(line, line_chars, current_time, cps) ==
    [start |-> current_time,
     end |-> RAdd(current_time, RDiv(Rat(line_chars, 1), cps)),
     text |-> line]

\* the for-loop over words from word k on, then the `if line:` tail
RECURSIVE GenCuesFrom(_, _, _, _, _, _)
GenCuesFrom(words, k, line, line_chars, current_time, cps) ==
    IF k > Len(words)
    THEN IF line # <<>> THEN <<GenCue(line, line_chars, current_time, cps)>>
         ELSE <<>>
    ELSE LET word == words[k] IN
         IF line_chars + Len(word) + 1 <= MaxLineChars
         THEN GenCuesFrom(words, k + 1,
                          IF line # <<>> THEN line \o <<" ">> \o word ELSE word,
                          line_chars + Len(word) + 1, current_time, cps)
         ELSE LET c == GenCue(line, line_chars, current_time, cps)
              IN <<c>> \o GenCuesFrom(words, k + 1, word, Len(word), c.end, cps)

generate_subtitles(text, p) ==
    GenCuesFrom(SplitWords(text), 1, <<>>, 0, Zero, GenCharsPerSecond(text, p))

-----------------------------------------------------------------------------
(* pixabay_image_fetcher.py: parse_srt_file, timestamp_to_seconds *)

\* \d{2}:\d{2}:\d{2},\d{3} at index i of line
IsTimestampAt(line, i) ==
    /\ Len(line) >= i + 11
    /\ \A k \in {0, 1, 3, 4, 6, 7, 9, 10, 11} : IsDigit(line[i + k])
    /\ line[i + 2] = ":"
    /\ line[i + 5] = ":"
    /\ line[i + 8] = ","

\* re.match(r'(ts) --> (ts)', timing): anchored at the start only
MatchTiming(line) ==
    /\ IsTimestampAt(line, 1)
    /\ Len(line) >= 29
    /\ SubSeq(line, 13, 17) = Arrow
    /\ IsTimestampAt(line, 18)

\* int(hours) * 3600 + int(minutes) * 60 + float(seconds) of HH:MM:SS,mmm
timestamp_to_seconds(ts) ==
    RAdd(Rat(Num(SubSeq(ts, 1, 2)) * 3600 + Num(SubSeq(ts, 4, 5)) * 60
             + Num(SubSeq(ts, 7, 8)), 1),
         Rat(Num(SubSeq(ts, 10, 12)), 1000))

RECURSIVE ParseBlocks(_)
ParseBlocks(blocks) ==
    IF blocks = <<>> THEN <<>>
    ELSE LET lines == SplitLines(blocks[1])
             rest == ParseBlocks(Tail(blocks))
         IN IF Len(lines) < 3 THEN rest
            ELSE IF ~MatchTiming(lines[2]) THEN rest
            ELSE LET start_time == SubSeq(lines[2], 1, 12)
                     end_time == SubSeq(lines[2], 18, 29)
                 IN <<[start_time |-> start_time,
                       end_time |-> end_time,
                       start_seconds |-> timestamp_to_seconds(start_time),
                       end_seconds |-> timestamp_to_seconds(end_time),
                       text |-> JoinLines(SubSeq(lines, 3, Len(lines)))]>>
                    \o rest

parse_srt_file(content) == ParseBlocks(SplitBlocks(Strip(content)))

-----------------------------------------------------------------------------
(* pixabay_image_fetcher.py: group_subtitles_by_segments,                  *)
(* get_images_for_segments, create_image_timing_data                       *)

\* segment_duration=30, the default that get_relevant_images_for_script uses
SegmentDuration == 30

\* the segment opened by a subtitle (lines 111-115 and 129-133)
NewSegment(subtitle) ==
    [start_seconds |-> subtitle.start_seconds,
     text |-> subtitle.text,
     subtitles |-> <<subtitle>>]

\* lines 124-126 and 141-143: the segment gets the end of its last subtitle
FinalizeSegment(current_segment) ==
    [start_seconds |-> current_segment.start_seconds,
     text |-> current_segment.text,
     subtitles |-> current_segment.subtitles,
     end_seconds |->
         current_segment.subtitles[Len(current_segment.subtitles)].end_seconds]

\* the loop of lines 117-137 from subtitle i on (1-based), then lines 140-143
RECURSIVE GroupFrom(_, _, _)
GroupFrom(subtitles, i, current_segment) ==
    IF i > Len(subtitles) THEN <<FinalizeSegment(current_segment)>>
    ELSE LET subtitle == subtitles[i]
             segment_duration_so_far ==
                 RSub(subtitle.start_seconds, current_segment.start_seconds)
         IN IF RLe(Rat(SegmentDuration, 1), segment_duration_so_far)
            THEN <<FinalizeSegment(current_segment)>>
                 \o GroupFrom(subtitles, i + 1, NewSegment(subtitle))
            ELSE GroupFrom(subtitles, i + 1,
                     [current_segment EXCEPT
                        !.text = @ \o <<" ">> \o subtitle.text,
                        !.subtitles = Append(@, subtitle)])

group_subtitles_by_segments(subtitles) ==
    IF subtitles = <<>> THEN <<>>
    ELSE GroupFrom(subtitles, 2, NewSegment(subtitles[1]))

\* get_images_for_segments: segment i gets the key image_path when the
\* search returned a URL and the download returned a path (got[i]); the
\* path is told apart by the segment's number
get_images_for_segments(segs, got) ==
    [i \in 1..Len(segs) |->
        IF got[i]
        THEN [start_seconds |-> segs[i].start_seconds,
              text |-> segs[i].text,
              subtitles |-> segs[i].subtitles,
              end_seconds |-> segs[i].end_seconds,
              image_path |-> i]
        ELSE segs[i]]

\* create_image_timing_data from segment i on: the segments with an image
RECURSIVE TimingFrom(_, _)
TimingFrom(segs, i) ==
    IF i > Len(segs) THEN <<>>
    ELSE (IF "image_path" \in DOMAIN segs[i]
          THEN <<[image_path |-> segs[i].image_path,
                  duration |-> RSub(segs[i].end_seconds,
                                    segs[i].start_seconds)]>>
          ELSE <<>>)
         \o TimingFrom(segs, i + 1)

\* the pair (image_paths, image_durations) as a list of pairs
create_image_timing_data(segs) == TimingFrom(segs, 1)

-----------------------------------------------------------------------------
(* video_creator.py: create_video_with_segments, lines 525-555 *)

\* the flush test of fixed-size groups of ceil(C / A) paragraphs
MergeFlush_ceil(i, C, A) == (i + 1) % ((C + A - 1) \div A) = 0 \/ i = C - 1

\* the flush test with the ratio truncated to an integer
MergeFlush_intratio(i, C, A) == (i + 1) % (C \div A) < 1 \/ i = C - 1

\* (i + 1) % ratio < 1 or i == len(paragraphs) - 1, for ratio = C / A and the
\* 0-based index i; (i + 1) % (C / A) < 1 is ((i + 1) * A) % C < A
MergeFlush(i, C, A) == ((i + 1) * A) % C < A \/ i = C - 1

\* current_group = p + " ": the group restarted at every paragraph
AppendToGroup_overwrite(current_group, p) == p \o <<" ">>

\* current_group += p, without the separating space
AppendToGroup_nosep(current_group, p) == current_group \o p

\* current_group += p + " "
AppendToGroup(current_group, p) == current_group \o p \o <<" ">>

\* the merge loop from 0-based index i on, with current_group as built so far
RECURSIVE MergeFrom(_, _, _, _)
MergeFrom(ps, i, current_group, A) ==
    IF i >= Len(ps) THEN <<>>
    ELSE LET g == AppendToGroup(current_group, ps[i + 1]) IN
         IF MergeFlush(i, Len(ps), A)
         THEN <<Strip(g)>> \o MergeFrom(ps, i + 1, <<>>, A)
         ELSE MergeFrom(ps, i + 1, g, A)

\* paragraphs after lines 526-538
MergeParagraphs(ps, imgs) ==
    IF Len(ps) > Len(imgs) THEN MergeFrom(ps, 0, <<>>, Len(imgs)) ELSE ps

\* images[len(images) % len(images)]
NextPadImage(imgs) == imgs[(Len(imgs) % Len(imgs)) + 1]

\* while len(paragraphs) > len(images): images.append(images[...])
RECURSIVE PadImages(_, _)
PadImages(imgs, target) ==
    IF target > Len(imgs)
    THEN PadImages(Append(imgs, NextPadImage(imgs)), target)
    ELSE imgs

\* images[:len(paragraphs)] when there are more images than paragraphs
TrimImages(imgs, n) == IF Len(imgs) > n THEN SubSeq(imgs, 1, n) ELSE imgs

\* paragraph_durations, lines 549-555 (total_chars > 0)
ParagraphDurations(ps, D) ==
    [k \in 1..Len(ps) |-> Duration(D, Len(ps[k]), SumLen(ps))]

-----------------------------------------------------------------------------
(* Paths: os.path.abspath, normalize_path, normalize_path_list,            *)
(* escape_path_for_ffmpeg.  os.name is "posix" or "nt".                    *)

Slash == "/"

Backslash == "\\"

Quote == "'"

Colon == ":"

Temp == <<"t", "e", "m", "p">>

LowerCase ==
    { "a", "b", "c", "d", "e", "f", "g", "h", "i", "j", "k", "l", "m",
      "n", "o", "p", "q", "r", "s", "t", "u", "v", "w", "x", "y", "z" }

UpperCase ==
    { "A", "B", "C", "D", "E", "F", "G", "H", "I", "J", "K", "L", "M",
      "N", "O", "P", "Q", "R", "S", "T", "U", "V", "W", "X", "Y", "Z" }

\* s.replace(c, rep) for a one-character pattern c
RECURSIVE Replace(_, _, _)
Replace(s, c, rep) ==
    IF s = <<>> THEN <<>>
    ELSE (IF s[1] = c THEN rep ELSE <<s[1]>>) \o Replace(Tail(s), c, rep)

\* t occurs in s at index i
StartsWithAt(s, i, t) ==
    i + Len(t) - 1 <= Len(s) /\ SubSeq(s, i, i + Len(t) - 1) = t

\* re.match(r'^[a-zA-Z]:', s)
HasDrive(s) ==
    Len(s) >= 2 /\ s[1] \in LowerCase \cup UpperCase /\ s[2] = Colon

\* os.getcwd()
Getcwd(name) ==
    IF name = "nt" THEN <<"C", Colon, Backslash, "w">> ELSE <<Slash, "w">>

\* os.path.abspath(p), for paths without ".", ".." or empty components (the
\* only other things normpath changes): posixpath joins a relative path to
\* the current directory; ntpath also turns every slash into a backslash and
\* completes a path without a drive from the current directory
abspath(name, p) ==
    IF name = "nt"
    THEN LET q == Replace(p, Slash, <<Backslash>>) IN
         IF HasDrive(q) THEN q
         ELSE IF q # <<>> /\ q[1] = Backslash
              THEN SubSeq(Getcwd(name), 1, 2) \o q
              ELSE Getcwd(name) \o <<Backslash>> \o q
    ELSE IF p # <<>> /\ p[1] = Slash THEN p
         ELSE Getcwd(name) \o <<Slash>> \o p

\* the text matched by (/|\\)temp\1temp\1 for separator c
TwiceTemp(c) == <<c>> \o Temp \o <<c>> \o Temp \o <<c>>

\* re.sub(r'(/|\\)temp\1temp\1', r'\1temp\1', s) from index i on: matches
\* are taken leftmost and do not overlap
RECURSIVE DedupTempFrom(_, _)
DedupTempFrom(s, i) ==
    IF i > Len(s) THEN <<>>
    ELSE IF s[i] \in {Slash, Backslash} /\ StartsWithAt(s, i, TwiceTemp(s[i]))
         THEN <<s[i]>> \o Temp \o <<s[i]>>
              \o DedupTempFrom(s, i + Len(TwiceTemp(s[i])))
         ELSE <<s[i]>> \o DedupTempFrom(s, i + 1)

\* video_creator.py normalize_path
normalize_path(name, p) ==
    LET a == abspath(name, p)
        d == DedupTempFrom(a, 1)
        drive == <<Getcwd(name)[1]>>
        w == IF HasDrive(d) THEN d
             ELSE IF d # <<>> /\ d[1] = Slash
                  THEN drive \o <<Colon>> \o Tail(d)
                  ELSE drive \o <<Colon>> \o d
    IN IF name = "nt" THEN Replace(w, Backslash, <<Slash>>) ELSE d

\* path.replace("'", "'\\''")
EscapeQuotes(p) == Replace(p, Quote, <<Quote, Backslash, Quote, Quote>>)

\* video_creator.py escape_path_for_ffmpeg
escape_path_for_ffmpeg(name, p) ==
    LET n == normalize_path(name, abspath(name, p))
        c == IF name = "nt" /\ HasDrive(n)
             THEN Replace(n, Colon, <<Backslash, Colon>>)
             ELSE n
        q == EscapeQuotes(c)
    IN Replace(q, Backslash, <<Slash>>)

\* re.sub(r'/+', '/', s)
RECURSIVE CollapseSlashes(_)
CollapseSlashes(s) ==
    IF Len(s) < 2 THEN s
    ELSE IF s[1] = Slash /\ s[2] = Slash THEN CollapseSlashes(Tail(s))
    ELSE <<s[1]>> \o CollapseSlashes(Tail(s))

\* re.sub(r'(^|/)temp/temp/', r'\1temp/', s) from index i on
RECURSIVE DedupLeadingTempFrom(_, _)
DedupLeadingTempFrom(s, i) ==
    LET twice == Temp \o <<Slash>> \o Temp \o <<Slash>> IN
    IF i > Len(s) THEN <<>>
    ELSE IF i = 1 /\ StartsWithAt(s, 1, twice)
         THEN Temp \o <<Slash>> \o DedupLeadingTempFrom(s, 1 + Len(twice))
    ELSE IF s[i] = Slash /\ StartsWithAt(s, i + 1, twice)
         THEN <<Slash>> \o Temp \o <<Slash>>
              \o DedupLeadingTempFrom(s, i + 1 + Len(twice))
    ELSE <<s[i]>> \o DedupLeadingTempFrom(s, i + 1)

\* one element of video_creator.py normalize_path_list
normalize_listed(name, p) ==
    DedupLeadingTempFrom(
        CollapseSlashes(Replace(abspath(name, p), Backslash, <<Slash>>)), 1)

-----------------------------------------------------------------------------
(* split_script_into_paragraphs *)

MinParagraphs == 5

LongParagraph == 500

MaxGroupChars == 300

MinTestParagraphs == 3

\* [p.strip() for p in pieces if p.strip()]
StrippedNonEmpty(pieces) ==
    SelectSeq([i \in 1..Len(pieces) |-> Strip(pieces[i])],
              LAMBDA x : x # <<>>)

\* max(len(p) for p in ps), for a non-empty ps
MaxLen(ps) == MaxOf({Len(ps[i]) : i \in 1..Len(ps)}, 0)

\* line 236: a sentence joins the current group when the two lengths
\* together stay under the limit; the mutant lets them reach it
FitsGroup_le(n) == n <= MaxGroupChars

FitsGroup(n) == n < MaxGroupChars

\* video_creator.py lines 234-244: the sentences of one paragraph, from
\* sentence k on, are gathered into groups
RECURSIVE GroupSentences(_, _, _)
GroupSentences(sentences, k, current_group) ==
    LET flushed == IF current_group # <<>> THEN <<Strip(current_group)>>
                   ELSE <<>>
    IN IF k > Len(sentences) THEN flushed
       ELSE IF FitsGroup(Len(current_group) + Len(sentences[k]))
            THEN GroupSentences(sentences, k + 1,
                     IF current_group # <<>>
                     THEN current_group \o <<" ">> \o sentences[k]
                     ELSE sentences[k])
            ELSE flushed \o GroupSentences(sentences, k + 1, sentences[k])

\* lines 231-244 for the paragraphs from index k on
RECURSIVE RegroupFrom(_, _)
RegroupFrom(ps, k) ==
    IF k > Len(ps) THEN <<>>
    ELSE GroupSentences(SplitSentences(ps[k]), 1, <<>>)
         \o RegroupFrom(ps, k + 1)

\* video_creator.py split_script_into_paragraphs
split_script_into_paragraphs(s) ==
    LET by_blank == StrippedNonEmpty(SplitBlocks(s))
        by_line == IF Len(by_blank) < MinParagraphs
                   THEN StrippedNonEmpty(SplitLines(s))
                   ELSE by_blank
    IN IF Len(by_line) < MinParagraphs \/ MaxLen(by_line) > LongParagraph
       THEN RegroupFrom(by_line, 1)
       ELSE by_line

\* f"Additional test paragraph {n}."
AdditionalParagraph(n) ==
    <<"A", "d", "d", "i", "t", "i", "o", "n", "a", "l", " ",
      "t", "e", "s", "t", " ",
      "p", "a", "r", "a", "g", "r", "a", "p", "h", " ">>
    \o Digits(n) \o <<".">>

\* test_video_creator.py lines 98-99
RECURSIVE PadParagraphs(_)
PadParagraphs(ps) ==
    IF Len(ps) < MinTestParagraphs
    THEN PadParagraphs(Append(ps, AdditionalParagraph(Len(ps) + 1)))
    ELSE ps

\* test_video_creator.py split_script_into_paragraphs
test_split_script_into_paragraphs(s) ==
    LET by_blank == StrippedNonEmpty(SplitBlocks(s))
        by_line == IF Len(by_blank) < MinTestParagraphs
                   THEN StrippedNonEmpty(SplitLines(s))
                   ELSE by_blank
    IN PadParagraphs(by_line)

-----------------------------------------------------------------------------
(* Stage 1 manifest (image_list.txt) and the encoder calls *)

\* the file an image of the input list is read from: image i is the file
\* i'<i> of the current directory
ImageFile(i) == <<"i", Quote>> \o Digits(i)

\* f"file '{img_path}'\n" for an element p of the normalized image list; the
\* record holds the text between the outer quotes
FileLine(name, p) ==
    [kind |-> "file",
     path |-> EscapeQuotes(normalize_path(name, abspath(name, p)))]

\* f"duration {duration}\n"; the record holds the number
DurationLine(d) == [kind |-> "duration", seconds |-> d]

\* the loop over zip(images, durations) from pair k on
RECURSIVE ManifestPairs(_, _, _, _)
ManifestPairs(name, imgs, durs, k) ==
    IF k > Len(imgs) \/ k > Len(durs) THEN <<>>
    ELSE <<FileLine(name, imgs[k]), DurationLine(durs[k])>>
         \o ManifestPairs(name, imgs, durs, k + 1)

\* the manifest without its closing line
ManifestLines_nolast(name, imgs, durs) == ManifestPairs(name, imgs, durs, 1)

\* the lines written to image_list.txt for a non-empty image list
ManifestLines(name, imgs, durs) ==
    ManifestPairs(name, imgs, durs, 1) \o <<FileLine(name, imgs[Len(imgs)])>>

\* images = normalize_path_list(images)
normalize_path_list(name, imgs) ==
    [i \in 1..Len(imgs) |-> normalize_listed(name, ImageFile(imgs[i]))]

\* duration_per_image = audio_duration / images_count, once per image
EvenDurations(D, n) == [i \in 1..n |-> RDiv(D, Rat(n, 1))]

\* exit codes of an ffmpeg run
ExitCodes == {0, 1}

\* subprocess.run(cmd) without check: the exit code is ignored
RunChecked_unchecked(exit) == TRUE

\* subprocess.run(cmd, check=True) returns (TRUE) on exit code 0 and raises
\* CalledProcessError (FALSE) otherwise
RunChecked(exit) == exit = 0

\* try_add_subtitles: line of the first import statement binding each name
\* that an import inside the function body makes local to the function
LocalImportLine == [shutil |-> 415, os |-> 483]

\* try_add_subtitles: line of the first use of each of these names
FirstUseLine == [shutil |-> 416, os |-> 412]

\* a local name read before the statement that binds it
UnboundLocalError ==
    \E n \in DOMAIN LocalImportLine : FirstUseLine[n] < LocalImportLine[n]

\* files of a video_creator.py run: three in temp_dir and the output file
NoFiles ==
    [image_list |-> "absent", temp_video |-> "absent",
     video_with_audio |-> "absent", output |-> "absent"]

-----------------------------------------------------------------------------
(* fix-subtitles.py: files of the runs of fix_video_subtitles *)

Runs == {1, 2}

\* what a file holds: nothing, the video or the cue file of run r, a video
\* made from the video of one run and the cues of another, or part of one
Absent == [kind |-> "absent", video |-> 0, subs |-> 0]

Partial == [kind |-> "partial", video |-> 0, subs |-> 0]

Video(r) == [kind |-> "video", video |-> r, subs |-> 0]

Subs(r) == [kind |-> "srt", video |-> 0, subs |-> r]

Burned(v, s) == [kind |-> "burned", video |-> v.video, subs |-> s.subs]

Muxed(v, s) == [kind |-> "muxed", video |-> v.video, subs |-> s.subs]

\* the files of the current directory that method 4 uses
EmptyCwd == [input |-> Absent, subs |-> Absent, output |-> Absent]

\* one run: temp_dir/fixed_subtitles.srt, simple.srt beside the output file,
\* the output file, and the value fix_video_subtitles returns
NewRun ==
    [pc |-> "start", subtitle_file |-> Absent, simple |-> Absent,
     out |-> Absent, res |-> "none"]

NoRuns == [r \in Runs |-> [NewRun EXCEPT !.pc = "idle"]]

\* what a failed ffmpeg run leaves of an output file f
AfterFailedRun(f, partial) == IF partial THEN Partial ELSE f

\* add_subtitles_to_video: where control goes when method k raises; the
\* handler of each try block falls through to the next block and the last one
\* to `return False`.  The mutants go past a method, or back to method 1
NextMethod_skip(k) ==
    IF k = 1 THEN "m3" ELSE IF k = 2 THEN "m3"
    ELSE IF k = 3 THEN "m4_video" ELSE "fallback"

NextMethod_restart(k) ==
    IF k = 1 THEN "m2" ELSE IF k = 2 THEN "m1"
    ELSE IF k = 3 THEN "m4_video" ELSE "fallback"

NextMethod(k) ==
    IF k = 1 THEN "m2" ELSE IF k = 2 THEN "m3"
    ELSE IF k = 3 THEN "m4_video" ELSE "fallback"

-----------------------------------------------------------------------------
(* Inputs *)

\* words of a script: a short word, sentences of 10 and 30 characters, and a
\* word as long as a subtitle line
WordSet ==
    { Rep("a", 1), Rep("a", 9) \o <<".">>, Rep("a", 29) \o <<".">>,
      Rep("a", MaxLineChars) }

\* what stands between two words: a space or a paragraph break
Separators == { <<" ">>, <<NL, NL>> }

\* leading and trailing text around the words
Margins == { <<<<>>, <<>>>>, <<<<" ">>, <<>>>>, <<<<>>, <<" ">>>> }

RECURSIVE JoinWith(_, _)
JoinWith(ws, sep) ==
    IF ws = <<>> THEN <<>>
    ELSE IF Len(ws) = 1 THEN ws[1]
    ELSE ws[1] \o sep \o JoinWith(Tail(ws), sep)

Scripts ==
    { m[1] \o JoinWith(ws, sep) \o m[2] :
        ws \in UNION { [1..k -> WordSet] : k \in 0..MaxWords },
        sep \in Separators, m \in Margins }

\* sentences around the limit of a sentence group: two of them fill a group
\* to the last character or overflow it, and one is longer than a group
LongSentences ==
    { Rep("a", 148) \o <<".">>, Rep("a", 149) \o <<".">>,
      Rep("a", MaxGroupChars) \o <<".">> }

\* the scripts handed to split_script_into_paragraphs
SplitScripts ==
    Scripts \cup
    { JoinWith(ws, <<" ">>) :
        ws \in UNION { [1..k -> LongSentences] : k \in 1..MaxWords } }

\* ffprobe outcomes: failure, a non-positive value, one minute, a millisecond,
\* and a duration over an hour
Probes ==
    { ProbeFails, ProbeGives(Zero), ProbeGives(<<60, 1>>),
      ProbeGives(<<1, 1000>>), ProbeGives(<<7447, 2>>) }

VideoProbes == { ProbeFails, ProbeGives(<<60, 1>>) }

\* paragraphs as split_script_into_paragraphs returns them: stripped and
\* non-empty, here without inner whitespace
ChunkTexts == { Rep("a", 10), Rep("a", 20), Rep("a", 30) }

ParagraphLists == UNION { [1..k -> ChunkTexts] : k \in 0..MaxChunks }

\* image paths are told apart by their position in the input list
ImageLists == { [i \in 1..k |-> i] : k \in 0..MaxImages }

\* times handed to format_time
TimeInputs ==
    { Zero, <<123, 2>>, <<253, 4>>, <<1, 2000>>, <<1, 3>>, <<59999, 1000>>,
      <<60, 1>>, <<3600, 1>>, <<7199999, 2000>>, <<359999999, 1000>>,
      <<360000, 1>> }

\* durations handed to create_video_with_segments_and_durations; None is
\* the empty list, both take the even split
DurationLists ==
    UNION { [1..k -> {<<2, 1>>, <<7, 2>>}] : k \in 0..MaxImages }

\* path components: plain, the temp directory, one with a colon (not a
\* file name on Windows), one with a quote
PosixComponents ==
    { <<"a">>, Temp, <<"b", Colon, "c">>, <<"d", Quote, "e">> }

NtComponents == { <<"a">>, Temp, <<"d", Quote, "e">> }

\* the separators a caller may write on each platform
SeparatorsOf(name) == IF name = "nt" THEN {Slash, Backslash} ELSE {Slash}

\* what a path starts with: nothing (relative) or the root
RootsOf(name) ==
    IF name = "nt" THEN { <<"C", Colon, Backslash>>, <<"C", Colon, Slash>> }
    ELSE { <<>>, <<Slash>> }

PathInputs(name) ==
    { root \o JoinWith(cs, <<sep>>) :
        root \in RootsOf(name), sep \in SeparatorsOf(name),
        cs \in UNION { [1..k -> IF name = "nt" THEN NtComponents
                                ELSE PosixComponents] : k \in 1..MaxDepth } }

-----------------------------------------------------------------------------
(* State machine *)

InitCommon ==
    /\ audio_duration = Zero
    /\ srt = <<>>
    /\ cues = <<>>
    /\ parsed = <<>>
    /\ paragraph_durations = <<>>
    /\ arg_paragraphs = <<>>
    /\ arg_images = <<>>
    /\ rendered = <<>>
    /\ result = "none"
    /\ manifest = <<>>
    /\ fs = NoFiles
    /\ calls = <<>>
    /\ cwd_files = EmptyCwd
    /\ escaped = <<>>

\* a subtitle run: fix-subtitles.py or video_creator.generate_subtitles
InitSubtitles ==
    /\ mode \in {"fix", "gen"}
    /\ pc = "subtitles"
    /\ script \in Scripts
    /\ probe \in Probes
    /\ paragraphs = <<>>
    /\ images = <<>>
    /\ orig_images = <<>>
    /\ seconds = Zero

\* a call of create_video_with_segments, directly or from
\* test_video_creator.main
InitVideo ==
    /\ mode \in {"cvws", "test"}
    /\ pc = IF mode = "test" THEN "test_main" ELSE "cvws"
    /\ script = <<>>
    /\ probe \in VideoProbes
    /\ paragraphs \in ParagraphLists
    /\ images \in ImageLists
    /\ orig_images = images
    /\ seconds = Zero

\* a call of format_time
InitFormat ==
    /\ mode = "fmt"
    /\ pc = "format"
    /\ script = <<>>
    /\ probe = ProbeFails
    /\ paragraphs = <<>>
    /\ images = <<>>
    /\ orig_images = <<>>
    /\ seconds \in TimeInputs

\* a call of split_script_into_paragraphs, of video_creator.py or of
\* test_video_creator.py
InitSplit ==
    /\ mode \in {"split", "tsplit"}
    /\ pc = "split"
    /\ script \in SplitScripts
    /\ probe = ProbeFails
    /\ paragraphs = <<>>
    /\ images = <<>>
    /\ orig_images = <<>>
    /\ seconds = Zero

\* the runs above use no duration list, no fix run and no path
InitPlain ==
    /\ image_durations = <<>>
    /\ runs = NoRuns
    /\ os_name = "posix"
    /\ path = <<>>

\* a call of create_video or of create_video_with_segments_and_durations
InitCreateVideo ==
    /\ mode \in {"cv", "cvsd"}
    /\ pc = mode
    /\ script = <<>>
    /\ probe \in VideoProbes
    /\ paragraphs = <<>>
    /\ images \in ImageLists
    /\ orig_images = images
    /\ seconds = Zero
    /\ image_durations \in (IF mode = "cvsd" THEN DurationLists ELSE {<<>>})
    /\ runs = NoRuns
    /\ os_name = "posix"
    /\ path = <<>>

\* two runs of fix_video_subtitles in one current directory, each with its
\* own video, script, temp_dir and output file
InitFixVideo ==
    /\ mode = "fixvid"
    /\ pc = "fix_runs"
    /\ script = <<>>
    /\ probe = ProbeFails
    /\ paragraphs = <<>>
    /\ images = <<>>
    /\ orig_images = <<>>
    /\ seconds = Zero
    /\ image_durations = <<>>
    /\ runs = [r \in Runs |-> NewRun]
    /\ os_name = "posix"
    /\ path = <<>>

\* a call of escape_path_for_ffmpeg, or of normalize_path on a path and then
\* on its own result
InitEscape ==
    /\ mode \in {"escape", "normalize"}
    /\ pc = mode
    /\ script = <<>>
    /\ probe = ProbeFails
    /\ paragraphs = <<>>
    /\ images = <<>>
    /\ orig_images = <<>>
    /\ seconds = Zero
    /\ image_durations = <<>>
    /\ runs = NoRuns
    /\ os_name \in {"posix", "nt"}
    /\ path \in PathInputs(os_name)

\* video_creator.main line 922 imports title_cards, while the module of the
\* repository is the file title-cards.py: the import raises ImportError,
\* which the handler at line 943 takes
TitleCardsFile == "title-cards"

ImportError == TitleCardsFile # "title_cards"

\* what an earlier run with the same temp_dir may have left there:
\* video_with_audio.mp4 and base_video.mp4 (the output file of the
\* create_video functions when main calls them)
LeftFiles ==
    { [NoFiles EXCEPT !.video_with_audio = v, !.output = o] :
        v \in {"absent", "stale"}, o \in {"absent", "stale"} }

\* video_creator.main at line 886: the images and their durations are there
\* (main returns at line 869 without images), one duration per image
InitMain ==
    /\ mode = "main"
    /\ pc = "cvsd"
    /\ attempt = 1
    /\ success = "none"
    /\ final = "absent"
    /\ no_title_cards \in BOOLEAN
    /\ steps = <<>>
    /\ segments = <<>>
    /\ fs \in LeftFiles
    /\ probe \in VideoProbes
    /\ images \in ImageLists \ {<<>>}
    /\ orig_images = images
    /\ image_durations \in {d \in DurationLists : Len(d) = Len(images)}
    /\ script = <<>>
    /\ paragraphs = <<>>
    /\ seconds = Zero
    /\ audio_duration = Zero
    /\ srt = <<>>
    /\ cues = <<>>
    /\ parsed = <<>>
    /\ paragraph_durations = <<>>
    /\ arg_paragraphs = <<>>
    /\ arg_images = <<>>
    /\ rendered = <<>>
    /\ result = "none"
    /\ manifest = <<>>
    /\ calls = <<>>
    /\ runs = NoRuns
    /\ cwd_files = EmptyCwd
    /\ os_name = "posix"
    /\ path = <<>>
    /\ escaped = <<>>
    /\ normalized = <<>>
    /\ renormalized = <<>>

\* outside video_creator.main and before any call of normalize_path
InitIdle ==
    /\ normalized = <<>>
    /\ renormalized = <<>>
    /\ attempt = 0
    /\ success = "none"
    /\ final = "absent"
    /\ no_title_cards = FALSE
    /\ steps = <<>>
    /\ segments = <<>>

Init ==
    \/ /\ InitCommon
       /\ InitIdle
       /\ \/ (InitSubtitles \/ InitVideo \/ InitFormat \/ InitSplit)
             /\ InitPlain
          \/ InitCreateVideo
          \/ InitFixVideo
          \/ InitEscape
    \/ InitMain


FormatTime ==
    /\ pc = "format"
    /\ rendered' = format_time(seconds)
    /\ pc' = "formatted"
    /\ UNCHANGED <<script, probe, audio_duration, srt, cues, parsed,
                   paragraphs, images, paragraph_durations, arg_paragraphs,
                   arg_images, orig_images, seconds, result, mode>>
    /\ UNCHANGED <<pipeVars, fixVars, pathVars, mainVars>>

\* fix-subtitles.py create_subtitles_for_audio: probe, split, time, write
CreateSubtitlesForAudio ==
    /\ pc = "subtitles" /\ mode = "fix"
    /\ audio_duration' = FixAudioDuration(script, probe)
    /\ cues' = create_subtitles_for_audio(script, probe)
    /\ srt' = Render(cues')
    /\ pc' = "written"
    /\ UNCHANGED <<script, probe, parsed, paragraphs, images,
                   paragraph_durations, arg_paragraphs, arg_images,
                   orig_images, seconds, rendered, result, mode>>
    /\ UNCHANGED <<pipeVars, fixVars, pathVars, mainVars>>

\* video_creator.py generate_subtitles: probe, split into lines, time, write
GenerateSubtitles ==
    /\ pc = "subtitles" /\ mode = "gen"
    /\ audio_duration' = get_audio_duration(probe)
    /\ cues' = generate_subtitles(script, probe)
    /\ srt' = Render(cues')
    /\ pc' = "written"
    /\ UNCHANGED <<script, probe, parsed, paragraphs, images,
                   paragraph_durations, arg_paragraphs, arg_images,
                   orig_images, seconds, rendered, result, mode>>
    /\ UNCHANGED <<pipeVars, fixVars, pathVars, mainVars>>

\* pixabay_image_fetcher.py parse_srt_file on the file just written
ParseSrtFile ==
    /\ pc = "written"
    /\ parsed' = parse_srt_file(srt)
    /\ pc' = "parsed"
    /\ UNCHANGED <<script, probe, audio_duration, srt, cues, paragraphs,
                   images, paragraph_durations, arg_paragraphs, arg_images,
                   orig_images, seconds, rendered, result, mode>>
    /\ UNCHANGED <<pipeVars, fixVars, pathVars, mainVars>>

\* get_relevant_images_for_script, lines 408-419, on the cues parsed from the
\* file generate_subtitles wrote: the segments, a search and a download per
\* segment that each may fail, and the images with their durations
GetRelevantImages ==
    /\ pc = "parsed" /\ mode = "gen"
    /\ \E got \in [1..Len(group_subtitles_by_segments(parsed)) -> BOOLEAN] :
         /\ segments' = get_images_for_segments(
                            group_subtitles_by_segments(parsed), got)
         /\ \E timing \in {create_image_timing_data(segments')} :
              /\ images' = [i \in 1..Len(timing) |-> timing[i].image_path]
              /\ image_durations' =
                     [i \in 1..Len(timing) |-> timing[i].duration]
    /\ pc' = "images"
    /\ UNCHANGED <<script, probe, audio_duration, srt, cues, parsed,
                   paragraphs, paragraph_durations, arg_paragraphs,
                   arg_images, orig_images, seconds, rendered, result, mode,
                   manifest, fs, calls, fixVars, pathVars, attempt, success,
                   final, no_title_cards, steps>>

\* test_video_creator.main, lines 225-232: no image ends the run, else the
\* image list is padded to the paragraph count before the call
TestMainPadImages ==
    /\ pc = "test_main"
    /\ IF images = <<>>
       THEN /\ pc' = "done"
            /\ UNCHANGED images
       ELSE /\ images' = PadImages(images, Len(paragraphs))
            /\ pc' = "cvws"
    /\ UNCHANGED <<script, probe, audio_duration, srt, cues, parsed,
                   paragraphs, paragraph_durations, arg_paragraphs,
                   arg_images, orig_images, seconds, rendered, result, mode>>
    /\ UNCHANGED <<pipeVars, fixVars, pathVars, mainVars>>

\* create_video_with_segments, lines 513-523: the empty-image guard and the
\* duration probe, whose failure is caught at lines 614-619
CvwsProbe ==
    /\ pc = "cvws"
    /\ arg_paragraphs' = paragraphs
    /\ arg_images' = images
    /\ IF images = <<>> \/ ~probe.ok
       THEN /\ result' = "false"
            /\ pc' = "done"
            /\ UNCHANGED audio_duration
       ELSE /\ audio_duration' = probe.dur
            /\ pc' = "reconcile"
            /\ UNCHANGED result
    /\ UNCHANGED <<script, probe, srt, cues, parsed, paragraphs, images,
                   paragraph_durations, orig_images, seconds, rendered, mode>>
    /\ UNCHANGED <<pipeVars, fixVars, pathVars, mainVars>>

\* lines 525-546: merge paragraphs, pad images, trim images
CvwsReconcile ==
    /\ pc = "reconcile"
    /\ paragraphs' = MergeParagraphs(paragraphs, images)
    /\ images' = TrimImages(PadImages(images, Len(paragraphs')),
                            Len(paragraphs'))
    /\ pc' = "allocate"
    /\ UNCHANGED <<script, probe, audio_duration, srt, cues, parsed,
                   paragraph_durations, arg_paragraphs, arg_images,
                   orig_images, seconds, rendered, result, mode>>
    /\ UNCHANGED <<pipeVars, fixVars, pathVars, mainVars>>

\* lines 548-555: a zero total_chars raises ZeroDivisionError at the first
\* paragraph, caught at line 617
CvwsAllocate ==
    /\ pc = "allocate"
    /\ IF paragraphs # <<>> /\ SumLen(paragraphs) = 0
       THEN /\ result' = "false"
            /\ pc' = "done"
            /\ UNCHANGED paragraph_durations
       ELSE /\ paragraph_durations' = ParagraphDurations(paragraphs, audio_duration)
            /\ pc' = "manifest"
            /\ UNCHANGED result
    /\ UNCHANGED <<script, probe, audio_duration, srt, cues, parsed,
                   paragraphs, images, arg_paragraphs, arg_images,
                   orig_images, seconds, rendered, mode>>
    /\ UNCHANGED <<pipeVars, fixVars, pathVars, mainVars>>

\* the variables of the subtitle, format and reconciliation steps that the
\* pipeline steps below leave alone
textVars == <<script, probe, srt, cues, parsed, seconds, rendered>>

chunkVars == <<paragraphs, images, paragraph_durations, arg_paragraphs,
               arg_images, orig_images>>

\* a call of either split_script_into_paragraphs
SplitScript ==
    /\ pc = "split"
    /\ paragraphs' = IF mode = "tsplit"
                     THEN test_split_script_into_paragraphs(script)
                     ELSE split_script_into_paragraphs(script)
    /\ pc' = "split_done"
    /\ UNCHANGED <<script, probe, audio_duration, srt, cues, parsed, images,
                   paragraph_durations, arg_paragraphs, arg_images,
                   orig_images, seconds, rendered, result, mode>>
    /\ UNCHANGED <<pipeVars, fixVars, pathVars, mainVars>>

\* a call of escape_path_for_ffmpeg
EscapePath ==
    /\ pc = "escape"
    /\ escaped' = escape_path_for_ffmpeg(os_name, path)
    /\ pc' = "escaped"
    /\ UNCHANGED <<textVars, chunkVars, audio_duration, result, mode,
                   pipeVars, fixVars, os_name, path, normalized,
                   renormalized, mainVars>>

\* normalize_path on a path, and again on the path it returned, as
\* try_add_subtitles (lines 400-402) does with the paths its callers have
\* normalized (lines 587-590)
NormalizePath ==
    /\ pc = "normalize"
    /\ normalized' = normalize_path(os_name, path)
    /\ renormalized' = normalize_path(os_name, normalize_path(os_name, path))
    /\ pc' = "normalized"
    /\ UNCHANGED <<textVars, chunkVars, audio_duration, result, mode,
                   pipeVars, fixVars, os_name, path, escaped, mainVars>>

\* create_video_with_segments, lines 557-574: image_list.txt is opened for
\* writing, the pairs are written, and the last image is named once more;
\* images[-1] of an empty list raises IndexError, caught at line 617
CvwsManifest ==
    /\ pc = "manifest"
    /\ fs' = [fs EXCEPT !.image_list = "manifest"]
    /\ IF images = <<>>
       THEN /\ manifest' = <<>>
            /\ result' = "false"
            /\ pc' = "done"
       ELSE /\ \E listed \in {normalize_path_list(os_name, images)} :
                 manifest' = ManifestLines(os_name, listed,
                                           paragraph_durations)
            /\ pc' = "stage1"
            /\ UNCHANGED result
    /\ UNCHANGED <<textVars, chunkVars, audio_duration, mode,
                   image_durations, calls, fixVars, pathVars, mainVars>>

\* create_video, lines 624-656: the empty-image guard, the duration probe
\* (its failure is caught at line 694) and the manifest with equal durations
CreateVideoManifest ==
    /\ pc = "cv"
    /\ IF images = <<>> \/ ~probe.ok
       THEN /\ result' = "false"
            /\ pc' = "done"
            /\ UNCHANGED <<audio_duration, manifest, fs>>
       ELSE /\ audio_duration' = probe.dur
            /\ \E listed \in {normalize_path_list(os_name, images)} :
                 manifest' = ManifestLines(os_name, listed,
                                 EvenDurations(probe.dur, Len(images)))
            /\ fs' = [fs EXCEPT !.image_list = "manifest"]
            /\ pc' = "stage1"
            /\ UNCHANGED result
    /\ UNCHANGED <<textVars, chunkVars, mode, image_durations, calls,
                   fixVars, pathVars, mainVars>>

\* create_video_with_segments_and_durations, lines 718-766: the guard, the
\* probe, and the manifest with the given durations when there is one per
\* image, with equal durations otherwise
CvsdManifest ==
    /\ pc = "cvsd"
    /\ IF images = <<>> \/ ~probe.ok
       THEN /\ result' = "false"
            /\ pc' = "done"
            /\ UNCHANGED <<audio_duration, manifest, fs>>
       ELSE /\ audio_duration' = probe.dur
            /\ \E listed \in {normalize_path_list(os_name, images)} :
                 manifest' = ManifestLines(os_name, listed,
                                 IF image_durations # <<>>
                                    /\ Len(image_durations) = Len(images)
                                 THEN image_durations
                                 ELSE EvenDurations(probe.dur, Len(images)))
            /\ fs' = [fs EXCEPT !.image_list = "manifest"]
            /\ pc' = "stage1"
            /\ UNCHANGED result
    /\ UNCHANGED <<textVars, chunkVars, mode, image_durations, calls,
                   fixVars, pathVars, mainVars>>

\* Stage 1 of the three create_video functions (lines 576-585, 658-666,
\* 768-777): ffmpeg encodes the images into temp_video.mp4; a non-zero exit
\* raises CalledProcessError, caught at the end of the function
Stage1 ==
    /\ pc = "stage1"
    /\ \E exit \in ExitCodes :
         /\ calls' = Append(calls, [cmd |-> "stage1", exit |-> exit])
         /\ IF RunChecked(exit)
            THEN /\ fs' = [fs EXCEPT !.temp_video = "video"]
                 /\ pc' = "stage2"
                 /\ UNCHANGED result
            ELSE /\ result' = "false"
                 /\ pc' = "done"
                 /\ UNCHANGED fs
    /\ UNCHANGED <<textVars, chunkVars, audio_duration, mode,
                   image_durations, manifest, fixVars, pathVars, mainVars>>

\* Stage 2 (lines 587-597, 668-678, 779-790): ffmpeg muxes the narration
\* into video_with_audio.mp4
Stage2 ==
    /\ pc = "stage2"
    /\ \E exit \in ExitCodes :
         /\ calls' = Append(calls, [cmd |-> "stage2", exit |-> exit])
         /\ IF RunChecked(exit)
            THEN /\ fs' = [fs EXCEPT !.video_with_audio = "video_with_audio"]
                 /\ pc' = "stage3"
                 /\ UNCHANGED result
            ELSE /\ result' = "false"
                 /\ pc' = "done"
                 /\ UNCHANGED fs
    /\ UNCHANGED <<textVars, chunkVars, audio_duration, mode,
                   image_durations, manifest, fixVars, pathVars, mainVars>>

\* Stage 3 (lines 599-612, 680-692, 792-804): try_add_subtitles reads os at
\* line 412, in method 1, before line 483 binds it; the UnboundLocalError is
\* not a CalledProcessError, so no handler of try_add_subtitles takes it and
\* the function that called it returns False from its `except Exception`
TryAddSubtitles ==
    /\ pc = "stage3"
    /\ UnboundLocalError
    /\ result' = "false"
    /\ pc' = "done"
    /\ UNCHANGED <<textVars, chunkVars, audio_duration, mode, pipeVars,
                   fixVars, pathVars, mainVars>>

\* the steps of fix_video_subtitles leave everything but the runs and the
\* current directory alone
fixFrame == <<textVars, chunkVars, audio_duration, result, mode, pc,
              pipeVars, pathVars, mainVars>>

\* fix_video_subtitles, lines 198-207: the cue file of run r is written to
\* its temp_dir
FixCreateSubtitles(r) ==
    /\ mode = "fixvid" /\ runs[r].pc = "start"
    /\ runs' = [runs EXCEPT ![r].subtitle_file = Subs(r), ![r].pc = "m1"]
    /\ UNCHANGED <<fixFrame, cwd_files>>

\* add_subtitles_to_video method 1, lines 87-111: the cue file is copied to
\* simple.srt beside the output file and burned in; any exception leads to
\* method 2
FixMethod1(r) ==
    /\ mode = "fixvid" /\ runs[r].pc = "m1"
    /\ \E copy_ok \in BOOLEAN, exit \in ExitCodes, partial \in BOOLEAN :
         runs' =
           IF ~copy_ok THEN [runs EXCEPT ![r].pc = NextMethod(1)]
           ELSE IF RunChecked(exit)
           THEN [runs EXCEPT ![r].simple = runs[r].subtitle_file,
                             ![r].out = Burned(Video(r), runs[r].subtitle_file),
                             ![r].res = "true",
                             ![r].pc = "done"]
           ELSE [runs EXCEPT ![r].simple = runs[r].subtitle_file,
                             ![r].out = AfterFailedRun(runs[r].out, partial),
                             ![r].pc = NextMethod(1)]
    /\ UNCHANGED <<fixFrame, cwd_files>>

\* method 2, lines 114-131: the cue file is burned in from its own place
FixMethod2(r) ==
    /\ mode = "fixvid" /\ runs[r].pc = "m2"
    /\ \E exit \in ExitCodes, partial \in BOOLEAN :
         runs' =
           IF RunChecked(exit)
           THEN [runs EXCEPT ![r].out = Burned(Video(r), runs[r].subtitle_file),
                             ![r].res = "true",
                             ![r].pc = "done"]
           ELSE [runs EXCEPT ![r].out = AfterFailedRun(runs[r].out, partial),
                             ![r].pc = NextMethod(2)]
    /\ UNCHANGED <<fixFrame, cwd_files>>

\* method 3, lines 134-153: the cues are added as a stream of their own
FixMethod3(r) ==
    /\ mode = "fixvid" /\ runs[r].pc = "m3"
    /\ \E exit \in ExitCodes, partial \in BOOLEAN :
         runs' =
           IF RunChecked(exit)
           THEN [runs EXCEPT ![r].out = Muxed(Video(r), runs[r].subtitle_file),
                             ![r].res = "true",
                             ![r].pc = "done"]
           ELSE [runs EXCEPT ![r].out = AfterFailedRun(runs[r].out, partial),
                             ![r].pc = NextMethod(3)]
    /\ UNCHANGED <<fixFrame, cwd_files>>

\* method 4, lines 160-165: the video is copied to input.mp4 of the current
\* directory; a failed copy ends the method
FixMethod4CopyVideo(r) ==
    /\ mode = "fixvid" /\ runs[r].pc = "m4_video"
    /\ \E copy_ok \in BOOLEAN :
         IF copy_ok
         THEN /\ cwd_files' = [cwd_files EXCEPT !.input = Video(r)]
              /\ runs' = [runs EXCEPT ![r].pc = "m4_subs"]
         ELSE /\ runs' = [runs EXCEPT ![r].pc = NextMethod(4)]
              /\ UNCHANGED cwd_files
    /\ UNCHANGED fixFrame

\* method 4, line 166: the cue file is copied to subs.srt
FixMethod4CopySubs(r) ==
    /\ mode = "fixvid" /\ runs[r].pc = "m4_subs"
    /\ \E copy_ok \in BOOLEAN :
         IF copy_ok
         THEN /\ cwd_files' = [cwd_files EXCEPT !.subs = runs[r].subtitle_file]
              /\ runs' = [runs EXCEPT ![r].pc = "m4_encode"]
         ELSE /\ runs' = [runs EXCEPT ![r].pc = NextMethod(4)]
              /\ UNCHANGED cwd_files
    /\ UNCHANGED fixFrame

\* method 4, lines 169-178: ffmpeg reads input.mp4 and subs.srt as they are
\* now and writes output.mp4; it fails when one of them is missing
FixMethod4Encode(r) ==
    /\ mode = "fixvid" /\ runs[r].pc = "m4_encode"
    /\ \E exit \in ExitCodes, partial \in BOOLEAN :
         IF cwd_files.input.kind = "video" /\ cwd_files.subs.kind = "srt"
            /\ RunChecked(exit)
         THEN /\ cwd_files' = [cwd_files EXCEPT
                                 !.output = Burned(cwd_files.input,
                                                   cwd_files.subs)]
              /\ runs' = [runs EXCEPT ![r].pc = "m4_back"]
         ELSE /\ cwd_files' = [cwd_files EXCEPT
                                 !.output = AfterFailedRun(cwd_files.output,
                                                           partial)]
              /\ runs' = [runs EXCEPT ![r].pc = NextMethod(4)]
    /\ UNCHANGED fixFrame

\* method 4, line 181: output.mp4 is copied to the output file
FixMethod4CopyBack(r) ==
    /\ mode = "fixvid" /\ runs[r].pc = "m4_back"
    /\ \E copy_ok \in BOOLEAN :
         runs' =
           IF copy_ok /\ cwd_files.output # Absent
           THEN [runs EXCEPT ![r].out = cwd_files.output,
                             ![r].pc = "m4_clean"]
           ELSE [runs EXCEPT ![r].pc = NextMethod(4)]
    /\ UNCHANGED <<fixFrame, cwd_files>>

\* method 4, lines 184-189: the three files of the current directory are
\* removed where they exist, and the method reports success
FixMethod4Cleanup(r) ==
    /\ mode = "fixvid" /\ runs[r].pc = "m4_clean"
    /\ cwd_files' = EmptyCwd
    /\ runs' = [runs EXCEPT ![r].res = "true", ![r].pc = "done"]
    /\ UNCHANGED fixFrame

\* lines 193-194 and 213-219: every method failed, add_subtitles_to_video
\* returns False and fix_video_subtitles copies the video to the output file
FixFallback(r) ==
    /\ mode = "fixvid" /\ runs[r].pc = "fallback"
    /\ runs' = [runs EXCEPT ![r].out = Video(r),
                            ![r].res = "false",
                            ![r].pc = "done"]
    /\ UNCHANGED <<fixFrame, cwd_files>>

\* what a step of main leaves alone
mainFrame == <<textVars, chunkVars, audio_duration, mode, image_durations,
               manifest, calls, fixVars, pathVars, no_title_cards, segments>>

\* main, lines 886-898: create_video_with_segments_and_durations has
\* returned; when it returned False, create_video is called with the same
\* files
MainSimplerMethod ==
    /\ mode = "main" /\ pc = "done" /\ attempt = 1
    /\ success' = result
    /\ IF result = "true"
       THEN /\ pc' = "title"
            /\ attempt' = 3
            /\ UNCHANGED result
       ELSE /\ pc' = "cv"
            /\ attempt' = 2
            /\ result' = "none"
    /\ UNCHANGED <<mainFrame, fs, final, steps>>

\* main, lines 895-912: create_video has returned; when it returned False
\* too and temp_dir holds a video_with_audio.mp4, that file is copied to
\* base_video.mp4 and success is set; main returns only when the copy raises
MainLastResort ==
    /\ mode = "main" /\ pc = "done" /\ attempt = 2
    /\ attempt' = 3
    /\ IF result = "true"
       THEN /\ success' = "true"
            /\ pc' = "title"
            /\ UNCHANGED fs
       ELSE IF fs.video_with_audio = "absent"
       THEN /\ success' = "false"
            /\ pc' = "title"
            /\ UNCHANGED fs
       ELSE \E copy_ok \in BOOLEAN :
              IF copy_ok
              THEN /\ fs' = [fs EXCEPT !.output = fs.video_with_audio]
                   /\ success' = "true"
                   /\ pc' = "title"
              ELSE /\ success' = "false"
                   /\ pc' = "exit"
                   /\ UNCHANGED fs
    /\ UNCHANGED <<mainFrame, result, final, steps>>

\* main, lines 914-948, whatever success is: base_video.mp4 is copied to the
\* output path, directly or after the import of title_cards has failed; a
\* missing base_video.mp4 makes shutil.copy raise out of main
MainTitleCards ==
    /\ mode = "main" /\ pc = "title"
    /\ no_title_cards \/ ImportError
    /\ steps' = steps \o (IF no_title_cards THEN <<"copy">>
                          ELSE <<"title_cards", "copy">>)
    /\ IF fs.output = "absent"
       THEN /\ pc' = "crashed"
            /\ UNCHANGED final
       ELSE \E copy_ok \in BOOLEAN :
              IF copy_ok
              THEN /\ final' = fs.output
                   /\ pc' = "exit"
              ELSE /\ pc' = "crashed"
                   /\ UNCHANGED final
    /\ UNCHANGED <<mainFrame, result, fs, attempt, success>>

Next ==
    \/ FormatTime
    \/ CreateSubtitlesForAudio
    \/ GenerateSubtitles
    \/ ParseSrtFile
    \/ GetRelevantImages
    \/ TestMainPadImages
    \/ CvwsProbe
    \/ CvwsReconcile
    \/ CvwsAllocate
    \/ SplitScript
    \/ EscapePath
    \/ NormalizePath
    \/ CvwsManifest
    \/ CreateVideoManifest
    \/ CvsdManifest
    \/ Stage1
    \/ Stage2
    \/ TryAddSubtitles
    \/ \E r \in Runs : FixCreateSubtitles(r)
    \/ \E r \in Runs : FixMethod1(r)
    \/ \E r \in Runs : FixMethod2(r)
    \/ \E r \in Runs : FixMethod3(r)
    \/ \E r \in Runs : FixMethod4CopyVideo(r)
    \/ \E r \in Runs : FixMethod4CopySubs(r)
    \/ \E r \in Runs : FixMethod4Encode(r)
    \/ \E r \in Runs : FixMethod4CopyBack(r)
    \/ \E r \in Runs : FixMethod4Cleanup(r)
    \/ \E r \in Runs : FixFallback(r)
    \/ MainSimplerMethod
    \/ MainLastResort
    \/ MainTitleCards

Spec == Init /\ [][Next]_vars

\* a step of a call of one of the create_video functions, from
\* test_video_creator.main or video_creator.main or on its own
AssemblyStep ==
    \/ TestMainPadImages
    \/ CvwsProbe
    \/ CvwsReconcile
    \/ CvwsAllocate
    \/ CvwsManifest
    \/ CreateVideoManifest
    \/ CvsdManifest
    \/ Stage1
    \/ Stage2
    \/ TryAddSubtitles
    \/ MainSimplerMethod
    \/ MainLastResort
    \/ MainTitleCards

\* a step of run r of fix_video_subtitles
FixStep(r) ==
    \/ FixCreateSubtitles(r)
    \/ FixMethod1(r)
    \/ FixMethod2(r)
    \/ FixMethod3(r)
    \/ FixMethod4CopyVideo(r)
    \/ FixMethod4CopySubs(r)
    \/ FixMethod4Encode(r)
    \/ FixMethod4CopyBack(r)
    \/ FixMethod4Cleanup(r)
    \/ FixFallback(r)

\* the runs that assemble a video
InitAssembly ==
    Init /\ mode \in {"cvws", "test", "cv", "cvsd", "main", "fixvid"}

NextAssembly == AssemblyStep \/ \E r \in Runs : FixStep(r)

\* a call of a create_video function, or main, has not returned: exactly
\* the states in which AssemblyStep can take a step, each of which changes pc
StepPending ==
    \/ mode \in {"cvws", "test", "cv", "cvsd"} /\ pc # "done"
    \/ mode = "main" /\ pc \notin {"exit", "crashed"}

\* every function here is sequential code whose external calls
\* (subprocess.run, shutil.copy2) return: a run that can take a step takes
\* it, and so does each of the two processes running fix_video_subtitles.
\* The second conjunct is weak fairness of AssemblyStep with its
\* enabling condition written out as StepPending
LiveSpec ==
    /\ InitAssembly
    /\ [][NextAssembly]_vars
    /\ ([]<>~StepPending \/ []<><<AssemblyStep>>_vars)
    /\ \A r \in Runs : WF_vars(FixStep(r))

-----------------------------------------------------------------------------
(* Vocabulary of the properties *)

OneMs == <<1, 1000>>

\* |x - y| <= 1 ms
WithinOneMs(x, y) == RLe(RSub(x, y), OneMs) /\ RLe(RSub(y, x), OneMs)

\* f[1] + ... + f[n] for a sequence of rationals
RECURSIVE RSum(_, _)
RSum(f, n) == IF n = 0 THEN Zero ELSE RAdd(RSum(f, n - 1), f[n])

\* Len(ps[1]) + ... + Len(ps[n])
RECURSIVE Weight(_, _)
Weight(ps, n) == IF n = 0 THEN 0 ELSE Weight(ps, n - 1) + Len(ps[n])

\* the sentences create_subtitles_for_audio makes cues of
KeptSentences ==
    SelectSeq(SplitSentences(script), LAMBDA x : Strip(x) # <<>>)

\* create_video_with_segments has computed paragraph_durations
Allocated == pc = "manifest"

\* create_video_with_segments has reconciled paragraphs and images
Reconciled == pc = "allocate"

\* a subtitle file has been written by mode m
Written(m) == mode = m /\ pc \in {"written", "parsed"}

\* chunk and asset counts create_video_with_segments was called with
ArgC == Len(arg_paragraphs)

ArgA == Len(arg_images)

\* reconciliation took the merge branch
Merged == Reconciled /\ ArgA >= 1 /\ ArgC > ArgA

\* number of original chunks in merged chunk k (original chunks hold no
\* whitespace, so they are the words of the merged chunk)
GroupSize(k) == Len(SplitWords(paragraphs[k]))

\* number of original chunks in merged chunks 1..k
RECURSIVE GroupEnd(_)
GroupEnd(k) == IF k = 0 THEN 0 ELSE GroupEnd(k - 1) + GroupSize(k)

\* the original chunks merged into chunk k
Group(k) == SubSeq(arg_paragraphs, GroupEnd(k - 1) + 1, GroupEnd(k))

CeilDiv(a, b) == (a + b - 1) \div b

-----------------------------------------------------------------------------
(* Properties *)

\* C1: for a non-empty chunk sequence of positive total weight and a positive
\* total duration, the proportional allocation starts at 0, each segment
\* starts where the previous one ends, no segment has negative length, and the
\* last one ends at total_duration (within 1 ms): for the cues of
\* create_subtitles_for_audio and for paragraph_durations laid end to end.
C1_Partition ==
    /\ (Written("fix") /\ cues # <<>>) =>
          /\ cues[1].start = Zero
          /\ \A k \in 1..(Len(cues) - 1) : cues[k + 1].start = cues[k].end
          /\ \A k \in 1..Len(cues) : RLe(cues[k].start, cues[k].end)
          /\ WithinOneMs(cues[Len(cues)].end, audio_duration)
    /\ (Allocated /\ paragraphs # <<>> /\ RLt(Zero, audio_duration)) =>
          /\ Len(paragraph_durations) = Len(paragraphs)
          /\ \A k \in 1..Len(paragraphs) : RLe(Zero, paragraph_durations[k])
          /\ WithinOneMs(RSum(paragraph_durations, Len(paragraphs)),
                         audio_duration)

C1_Witness ==
    /\ Written("fix") /\ Len(cues) = 3 /\ audio_duration = <<60, 1>>
    /\ cues[2].start # cues[3].start

\* C2: every chunk's duration is total_duration * weight / (sum of weights),
\* so durations are in the ratio of the weights; weights 10, 20, 30 with
\* total_duration 60 give the segments (0,10), (10,30), (30,60).
C2_Proportional ==
    /\ (Allocated /\ paragraphs # <<>>) =>
          LET n == Len(paragraphs)
              W == Weight(paragraphs, n)
          IN /\ \A a \in 1..n :
                   RMul(paragraph_durations[a], <<W, 1>>)
                     = RMul(audio_duration, <<Len(paragraphs[a]), 1>>)
             /\ \A a, b \in 1..n :
                   RMul(paragraph_durations[a], <<Len(paragraphs[b]), 1>>)
                     = RMul(paragraph_durations[b], <<Len(paragraphs[a]), 1>>)
             /\ ( /\ [k \in 1..n |-> Len(paragraphs[k])] = <<10, 20, 30>>
                  /\ audio_duration = <<60, 1>> )
                => paragraph_durations = << <<10, 1>>, <<20, 1>>, <<30, 1>> >>
    /\ (Written("fix") /\ cues # <<>>) =>
          LET kept == KeptSentences
              all == SplitSentences(script)
              W == Weight(all, Len(all))
              dur(k) == RSub(cues[k].end, cues[k].start)
          IN /\ Len(kept) = Len(cues)
             /\ \A a \in 1..Len(cues) :
                   RMul(dur(a), <<W, 1>>)
                     = RMul(audio_duration, <<Len(kept[a]), 1>>)
             /\ \A a, b \in 1..Len(cues) :
                   RMul(dur(a), <<Len(kept[b]), 1>>)
                     = RMul(dur(b), <<Len(kept[a]), 1>>)

C2_Witness ==
    /\ Allocated
    /\ [k \in 1..Len(paragraphs) |-> Len(paragraphs[k])] = <<10, 20, 30>>
    /\ audio_duration = <<60, 1>>
    /\ paragraph_durations = << <<10, 1>>, <<20, 1>>, <<30, 1>> >>

\* C3: for C >= 1 chunks and A >= 1 assets, after reconciliation paragraphs
\* and images have the same length L, with L = C when A >= C (the images cut
\* to the first C, the paragraphs as given) and L = A when C > A.
C3_EqualLengths ==
    (Reconciled /\ ArgC >= 1 /\ ArgA >= 1) =>
       /\ Len(paragraphs) = Len(images)
       /\ Len(paragraphs) = IF ArgA >= ArgC THEN ArgC ELSE ArgA
       /\ ArgA >= ArgC =>
             /\ paragraphs = arg_paragraphs
             /\ images = SubSeq(arg_images, 1, ArgC)

C3_Witness == Merged /\ ArgC = 4 /\ ArgA = 3 /\ Len(paragraphs) = 3

\* C4: when reconciliation merges, every merged chunk is a run of consecutive
\* original chunks joined by single spaces, the runs taken in order cover the
\* original chunks exactly once, and the images are kept in their order.
C4_MergeKeepsText ==
    Merged =>
       /\ \A k \in 1..Len(paragraphs) :
             /\ GroupSize(k) >= 1
             /\ paragraphs[k] = JoinWith(Group(k), <<" ">>)
       /\ GroupEnd(Len(paragraphs)) = ArgC
       /\ SplitWords(JoinWith(paragraphs, <<" ">>)) = arg_paragraphs
       /\ images = SubSeq(arg_images, 1, Len(images))

C4_Witness ==
    /\ Merged /\ ArgC = 5 /\ ArgA = 3
    /\ Len(arg_paragraphs[1]) # Len(arg_paragraphs[2])
    /\ GroupSize(1) = 2

\* C5 as stated: every merged group but the last has exactly ceil(C/A)
\* chunks.
C5_GroupsOfCeil ==
    Merged =>
       \A k \in 1..(Len(paragraphs) - 1) : GroupSize(k) = CeilDiv(ArgC, ArgA)

\* C5 as amended: C chunks are merged into A consecutive groups of floor(C/A)
\* or ceil(C/A) chunks each, the first of ceil(C/A); 5 chunks and 2 assets
\* give groups of 3 and 2.
C5_GroupsBalanced ==
    Merged =>
       /\ Len(paragraphs) = ArgA
       /\ GroupEnd(ArgA) = ArgC
       /\ \A k \in 1..ArgA :
             GroupSize(k) \in {ArgC \div ArgA, CeilDiv(ArgC, ArgA)}
       /\ GroupSize(1) = CeilDiv(ArgC, ArgA)
       /\ (ArgC = 5 /\ ArgA = 2) => (GroupSize(1) = 3 /\ GroupSize(2) = 2)

C5_Witness ==
    /\ Merged /\ ArgC = 5 /\ ArgA = 2
    /\ GroupSize(1) = 3 /\ GroupSize(2) = 2

\* C6 as stated: the weight of a merged chunk is the sum of the weights of
\* the chunks merged into it, so merging leaves the total weight unchanged.
C6_WeightsSummed ==
    Merged =>
       /\ \A k \in 1..Len(paragraphs) :
             Len(paragraphs[k]) = Weight(Group(k), Len(Group(k)))
       /\ Weight(paragraphs, Len(paragraphs)) = Weight(arg_paragraphs, ArgC)

\* C6 as amended: the weight of a merged chunk is the sum of the weights of
\* its chunks plus one for each joining space, so merging C chunks into L
\* raises the total weight by C - L.
C6_WeightsPlusSpaces ==
    Merged =>
       /\ \A k \in 1..Len(paragraphs) :
             Len(paragraphs[k])
               = Weight(Group(k), Len(Group(k))) + GroupSize(k) - 1
       /\ GroupEnd(Len(paragraphs)) = ArgC
       /\ Weight(paragraphs, Len(paragraphs))
            = Weight(arg_paragraphs, ArgC) + ArgC - Len(paragraphs)

C6_Witness ==
    /\ Merged /\ ArgC = 3 /\ ArgA = 2
    /\ Len(paragraphs[1]) = Len(arg_paragraphs[1]) + Len(arg_paragraphs[2]) + 1

\* C7: when a shorter image list is padded to the chunk count, position i
\* (0-based) holds the original image i mod n, n the original image count.
C7_PaddingCyclic ==
    (mode = "test" /\ pc = "cvws") =>
       \A i \in 0..(Len(images) - 1) :
          images[i + 1] = orig_images[(i % Len(orig_images)) + 1]

\* the text "00:01:01,500" as a sequence of characters
Ts_00_01_01_500 ==
    <<"0", "0", ":", "0", "1", ":", "0", "1", ",", "5", "0", "0">>

Ts_00_01_03_250 ==
    <<"0", "0", ":", "0", "1", ":", "0", "3", ",", "2", "5", "0">>

HundredHours == <<360000, 1>>

\* C8: for 0 <= t < 100 hours format_time(t) is HH:MM:SS,mmm of widths
\* 2,2,2,3 with HH = floor(t/3600), MM = floor((t mod 3600)/60) in 0..59,
\* SS = floor(t mod 60) in 0..59 and mmm = floor(frac(t) * 1000) in 0..999:
\* the rendered time is the greatest whole millisecond not above t; 61.5
\* renders as 00:01:01,500 and 63.25 as 00:01:03,250.
C8_FormatTime ==
    (pc = "formatted" /\ RLt(seconds, HundredHours)) =>
       LET r == rendered
           HH == Num(SubSeq(r, 1, 2))
           MM == Num(SubSeq(r, 4, 5))
           SS == Num(SubSeq(r, 7, 8))
           ms == Num(SubSeq(r, 10, 12))
           whole == (HH * 60 + MM) * 60 + SS
       IN /\ Len(r) = 12
          /\ IsTimestampAt(r, 1)
          /\ MM \in 0..59 /\ SS \in 0..59 /\ ms \in 0..999
          /\ RLe(<<HH * 3600, 1>>, seconds)
          /\ RLt(seconds, <<(HH + 1) * 3600, 1>>)
          /\ RLe(<<(HH * 60 + MM) * 60, 1>>, seconds)
          /\ RLt(seconds, <<(HH * 60 + MM + 1) * 60, 1>>)
          /\ RLe(<<whole, 1>>, seconds)
          /\ RLt(seconds, <<whole + 1, 1>>)
          /\ RLe(RAdd(<<whole, 1>>, Rat(ms, 1000)), seconds)
          /\ RLt(seconds, RAdd(<<whole, 1>>, Rat(ms + 1, 1000)))
          /\ seconds = <<123, 2>> => r = Ts_00_01_01_500
          /\ seconds = <<253, 4>> => r = Ts_00_01_03_250

C8_Witness ==
    /\ pc = "formatted" /\ seconds = <<7199999, 2000>>
    /\ Num(SubSeq(rendered, 10, 12)) = 999
    /\ Num(SubSeq(rendered, 4, 5)) = 59

\* the time a formatted timestamp denotes
RenderedTime(t) == timestamp_to_seconds(format_time(t))

\* C9: every cue written to a subtitle file has a rendered end timestamp
\* strictly later than its rendered start timestamp.
C9_EndAfterStart ==
    (pc \in {"written", "parsed"}) =>
       \A k \in 1..Len(cues) :
          RLt(RenderedTime(cues[k].start), RenderedTime(cues[k].end))

\* C10: parsing the written cue file recovers as many cues as were written, in
\* order, with the same text and with start and end times within 1 ms of the
\* times that were formatted.
C10_RoundTrip ==
    pc = "parsed" =>
       /\ Len(parsed) = Len(cues)
       /\ \A k \in 1..Len(parsed) :
             /\ parsed[k].text = cues[k].text
             /\ WithinOneMs(parsed[k].start_seconds, cues[k].start)
             /\ WithinOneMs(parsed[k].end_seconds, cues[k].end)

-----------------------------------------------------------------------------
(* Vocabulary of the pipeline properties *)

\* one of the create_video functions is the run
VideoRun == mode \in {"cvws", "test", "cv", "cvsd"}

\* the create_video function has returned
Returned == VideoRun /\ pc = "done" /\ result # "none"

\* the encoder call cmd was made and exited with 0
CallOk(cmd) ==
    \E i \in 1..Len(calls) : calls[i].cmd = cmd /\ calls[i].exit = 0

\* the encoder call cmd was made and exited with another code
CallFailed(cmd) ==
    \E i \in 1..Len(calls) : calls[i].cmd = cmd /\ calls[i].exit # 0

\* C11: when Stage 1 and Stage 2 have succeeded and no Stage-3 subtitle
\* variant succeeds, however each fails, the create_video function still
\* returns True.
C11_Stage3Absorbed ==
    (Returned /\ CallOk("stage1") /\ CallOk("stage2")) => result = "true"

\* C12: when no Stage-3 variant has succeeded, the run ends with a file at
\* the output path that is the Stage-2 artifact (the video with audio; for a
\* fix run, the video it was given), whatever failed variants left there.
C12_FallbackCopy ==
    /\ (Returned /\ CallOk("stage2")) => fs.output = fs.video_with_audio
    /\ \A r \in Runs :
          (runs[r].pc = "done" /\ runs[r].res = "false")
             => runs[r].out = Video(r)

\* C13: once the Stage-1 or the Stage-2 encoder call has failed no further
\* call is made (Stage 3 is reached only after both have succeeded), the
\* function returns False, and the output path is not written.
C13_MandatoryStagesAbort ==
    VideoRun =>
       /\ \A i \in 1..Len(calls) :
             calls[i].exit # 0 =>
                /\ i = Len(calls)
                /\ pc = "done"
                /\ result = "false"
                /\ fs.output = "absent"
       /\ pc = "stage2" => CallOk("stage1")
       /\ pc = "stage3" => CallOk("stage1") /\ CallOk("stage2")
       /\ CallFailed("stage1") => fs.video_with_audio = "absent"

\* Stage 1 succeeded and Stage 2 failed in create_video
C13_Witness ==
    /\ mode = "cv" /\ pc = "done" /\ result = "false"
    /\ CallOk("stage1") /\ CallFailed("stage2")
    /\ fs.temp_video = "video" /\ fs.output = "absent"

\* the probe raised or gave a value that is not positive
ProbeUnusable == ~probe.ok \/ RLe(probe.dur, Zero)

\* C14: when the duration probe fails or gives a non-positive value, timing
\* goes on with the estimate of 15 characters per second (for
\* create_subtitles_for_audio a total of len(text) / 15; for
\* generate_subtitles every cue lasts its characters / 15) and the run is not
\* reported as failed; the same for the create_video functions.
C14_ProbeFallback ==
    ProbeUnusable =>
       /\ Written("fix") => audio_duration = Rat(Len(script), CharsPerSecond)
       /\ Written("gen") =>
             \A k \in 1..Len(cues) :
                \E n \in 0..MaxLineChars :
                   RSub(cues[k].end, cues[k].start) = Rat(n, CharsPerSecond)
       /\ (Returned /\ orig_images # <<>>) => result # "false"

\* C15: an allocation over text or chunks of zero total weight (empty or
\* whitespace-only text, an empty chunk list) ends in an error: no cue file
\* is written by create_subtitles_for_audio, and create_video_with_segments
\* returns False with no durations and no manifest file.
C15_ZeroWeightError ==
    /\ (mode = "fix" /\ Strip(script) = <<>>) => ~Written("fix")
    /\ (mode \in {"cvws", "test"} /\ Returned /\ SumLen(arg_paragraphs) = 0)
          => /\ result = "false"
             /\ paragraph_durations = <<>>
             /\ fs.image_list = "absent"

\* C16: split_script_into_paragraphs returns a list only for text with a
\* non-whitespace character, and the list it returns is not empty and holds
\* no empty chunk.
C16_NeverEmpty ==
    pc = "split_done" =>
       /\ Strip(script) # <<>>
       /\ paragraphs # <<>>
       /\ \A k \in 1..Len(paragraphs) : paragraphs[k] # <<>>

\* C17: a run creates, overwrites or deletes no file outside its working
\* directory other than its output file: the current directory gets no file,
\* and the directory of the output file gets none beside the output.
C17_OnlyWorkdirAndOutput ==
    /\ cwd_files = EmptyCwd
    /\ \A r \in Runs : runs[r].simple = Absent

\* the manifest has been written for a non-empty image list
ManifestWritten == VideoRun /\ fs.image_list = "manifest" /\ images # <<>>

\* the durations the manifest was written from
UsedDurations ==
    IF mode \in {"cvws", "test"} THEN paragraph_durations
    ELSE IF mode = "cvsd" /\ Len(image_durations) = Len(images)
         THEN image_durations
         ELSE EvenDurations(audio_duration, Len(images))

\* the path a quoted word of the manifest names: '\'' stands for a quote
RECURSIVE UnquoteFrom(_, _)
UnquoteFrom(s, i) ==
    IF i > Len(s) THEN <<>>
    ELSE IF StartsWithAt(s, i, <<Quote, Backslash, Quote, Quote>>)
         THEN <<Quote>> \o UnquoteFrom(s, i + 4)
         ELSE <<s[i]>> \o UnquoteFrom(s, i + 1)

\* the absolute path of image i of the list
ImagePath(i) == Getcwd(os_name) \o <<Slash>> \o ImageFile(images[i])

\* C18: for N >= 1 images with one duration each, the manifest has 2N+1
\* lines: for i = 1..N a file line naming image i followed by a duration
\* line with duration i, in input order, then one more file line naming
\* image N.
C18_ManifestShape ==
    ManifestWritten =>
       LET N == Len(images) IN
       /\ Len(UsedDurations) = N
       /\ Len(manifest) = 2 * N + 1
       /\ \A i \in 1..N :
             /\ manifest[2 * i - 1].kind = "file"
             /\ UnquoteFrom(manifest[2 * i - 1].path, 1) = ImagePath(i)
             /\ manifest[2 * i].kind = "duration"
             /\ manifest[2 * i].seconds = UsedDurations[i]
       /\ manifest[2 * N + 1].kind = "file"
       /\ UnquoteFrom(manifest[2 * N + 1].path, 1) = ImagePath(N)

\* durations 2 s, 3.5 s and 2 s given for three images
C18_Witness ==
    /\ mode = "cvsd" /\ pc = "stage1"
    /\ images = <<1, 2, 3>>
    /\ image_durations = <<<<2, 1>>, <<7, 2>>, <<2, 1>>>>
    /\ Len(manifest) = 7
    /\ manifest[4].seconds = <<7, 2>>

\* C19: two concurrent runs with distinct working directories and output
\* files do not touch each other's files and end as they would alone: a file
\* a run has written for its own use still holds what the run wrote when the
\* run reads it, and a video with subtitles at a run's output path is made
\* from that run's video and that run's cues.
C19_RunsIsolated ==
    \A r \in Runs :
       /\ runs[r].pc \in {"m4_subs", "m4_encode"} => cwd_files.input = Video(r)
       /\ runs[r].pc = "m4_encode" => cwd_files.subs = Subs(r)
       /\ runs[r].pc = "m4_back"
             => cwd_files.output = Burned(Video(r), Subs(r))
       /\ runs[r].out.kind \in {"burned", "muxed"}
             => runs[r].out.video = r /\ runs[r].out.subs = r

\* C20: in the result of escape_path_for_ffmpeg every colon and every single
\* quote is immediately preceded by a backslash.
C20_ColonsAndQuotesEscaped ==
    pc = "escaped" =>
       \A i \in 1..Len(escaped) :
          escaped[i] \in {Colon, Quote}
             => i > 1 /\ escaped[i - 1] = Backslash

-----------------------------------------------------------------------------
(* Order of the subtitle methods *)

\* the method a run of add_subtitles_to_video is in, 0 outside the methods
MethodOf(p) ==
    IF p = "m1" THEN 1 ELSE IF p = "m2" THEN 2 ELSE IF p = "m3" THEN 3
    ELSE IF p \in {"m4_video", "m4_subs", "m4_encode", "m4_back", "m4_clean"}
    THEN 4 ELSE 0

\* C21: the subtitle methods are entered in the order 1, 2, 3, 4: a run
\* enters method 1 from its start and method k+1 only from method k, without
\* a success so far; it is in one method at a time, and once a method has
\* succeeded the run changes no more.  In video_creator.py the call ends in
\* method 1, so no later method is entered there either
C21_MethodsInOrder ==
    [][
        /\ \A r \in Runs :
             LET a == MethodOf(runs[r].pc)
                 b == MethodOf(runs'[r].pc)
             IN  /\ (b # 0 /\ b # a) =>
                      /\ b = a + 1
                      /\ (a = 0 => runs[r].pc = "start")
                      /\ runs[r].res = "none"
                      /\ runs'[r].res = "none"
                 /\ (runs[r].res = "true" => runs'[r] = runs[r])
        /\ ((VideoRun /\ pc = "stage3") => pc' \in {"stage3", "done"})
    ]_vars

\* method 3 succeeded for one run after methods 1 and 2 failed, and the
\* other run is at the end of method 4 after methods 1 to 3 failed
C21_Witness ==
    /\ mode = "fixvid"
    /\ runs[1].pc = "done" /\ runs[1].res = "true"
    /\ runs[1].out.kind = "muxed"
    /\ runs[2].pc = "m4_clean" /\ runs[2].res = "none"

-----------------------------------------------------------------------------
(* Stage 3 of the create_video functions; files of method 4 *)

\* C22: when Stage 2 of a create_video function has succeeded, the encoder
\* has been run once more, with the subtitle filter of method 1, by the time
\* the function returns
C22_Method1Attempted ==
    (Returned /\ CallOk("stage2")) =>
        \E i \in DOMAIN calls : calls[i].cmd \notin {"stage1", "stage2"}

\* C23: when a run of add_subtitles_to_video has returned, and no other run
\* has started, none of input.mp4, subs.srt and output.mp4 is left in the
\* current directory
C23_CwdClean ==
    (mode = "fixvid" /\ runs[1].pc = "done" /\ runs[2].pc = "start") =>
        cwd_files = EmptyCwd

-----------------------------------------------------------------------------
(* Sentence groups *)

\* split_script_into_paragraphs of video_creator.py has returned after
\* regrouping the sentences (line 227 held)
Regrouped ==
    /\ mode = "split" /\ pc = "split_done"
    /\ LET by_blank == StrippedNonEmpty(SplitBlocks(script))
           by_line == IF Len(by_blank) < MinParagraphs
                      THEN StrippedNonEmpty(SplitLines(script))
                      ELSE by_blank
       IN Len(by_line) < MinParagraphs \/ MaxLen(by_line) > LongParagraph

\* C24 as stated: after regrouping, every chunk has at most 300 characters
C24_AllChunksCapped ==
    Regrouped =>
        \A i \in DOMAIN paragraphs : Len(paragraphs[i]) <= MaxGroupChars

\* C24, amended: after regrouping, every chunk has at most 300 characters
\* or is a single sentence
C24_GroupsCapped ==
    Regrouped =>
        \A i \in DOMAIN paragraphs :
            \/ Len(paragraphs[i]) <= MaxGroupChars
            \/ Len(SplitSentences(paragraphs[i])) = 1

\* two sentences fill a chunk to its 300th character, and a sentence of 301
\* characters is a chunk of its own
C24_Witness ==
    /\ Regrouped
    /\ \E i \in DOMAIN paragraphs :
         /\ Len(paragraphs[i]) = MaxGroupChars
         /\ Len(SplitSentences(paragraphs[i])) = 2
    /\ \E i \in DOMAIN paragraphs : Len(paragraphs[i]) > MaxGroupChars

-----------------------------------------------------------------------------
(* video_creator.main after the create_video calls *)

\* main is past its last video-creation attempt
AttemptsOver == mode = "main" /\ attempt = 3

\* C25: when every video-creation attempt of main has failed (both
\* create_video functions and the last-resort copy), main runs no later
\* step: neither the title-card step nor the copy to the output path, and
\* nothing is at the output path
C25_FailureEndsMain ==
    (AttemptsOver /\ success = "false") =>
        steps = <<>> /\ final = "absent"

\* C28: when main has its base video, base_video.mp4 is a copy of the
\* video_with_audio.mp4 that a Stage 2 of this run wrote, never of one left
\* in temp_dir by an earlier run
C28_BaseFromThisRun ==
    (AttemptsOver /\ success = "true") =>
        fs.output = "video_with_audio" /\ CallOk("stage2")

-----------------------------------------------------------------------------
(* Cues of generate_subtitles over the audio *)

\* generate_subtitles has written cues for an audio file of known, positive
\* duration
TimedToAudio ==
    Written("gen") /\ probe.ok /\ RLt(Zero, probe.dur) /\ cues # <<>>

\* C26: with a known positive audio duration D, the cues of
\* generate_subtitles start at 0, each begins where the one before ended,
\* and the last one ends at D, to the millisecond
C26_CuesSpanAudio ==
    TimedToAudio =>
        /\ cues[1].start = Zero
        /\ \A i \in 1..(Len(cues) - 1) : cues[i + 1].start = cues[i].end
        /\ WithinOneMs(cues[Len(cues)].end, probe.dur)

-----------------------------------------------------------------------------
(* Termination *)

\* C27: every call of a create_video function returns, main ends, and every
\* run of add_subtitles_to_video ends, whatever the numbers of paragraphs
\* and images and whichever encoder runs and copies fail
C27_Terminates ==
    /\ VideoRun ~> (VideoRun /\ pc = "done")
    /\ (mode = "main") ~> (pc \in {"exit", "crashed"})
    /\ \A r \in Runs : (mode = "fixvid") ~> (runs[r].pc = "done")

\* a call that merged five paragraphs for two images went through Stages 1
\* and 2 and returned
C27_Witness ==
    /\ mode = "cvws" /\ pc = "done"
    /\ Len(arg_paragraphs) = MaxChunks /\ Len(arg_images) = 2
    /\ CallOk("stage1") /\ CallOk("stage2")

-----------------------------------------------------------------------------
(* normalize_path twice *)

\* C29: normalize_path applied to its own result returns it unchanged
C29_Idempotent ==
    (mode = "normalize" /\ pc = "normalized") => renormalized = normalized

-----------------------------------------------------------------------------
(* Image durations over the cues *)

\* get_relevant_images_for_script has returned for a non-empty cue list
\* in which each cue starts where the one before ended
TimedImages ==
    /\ mode = "gen" /\ pc = "images"
    /\ parsed # <<>>
    /\ \A i \in 1..(Len(parsed) - 1) :
          parsed[i + 1].start_seconds = parsed[i].end_seconds

\* C30: for a contiguous cue list, whichever searches and downloads fail,
\* the image durations sum to the time from the start of the first cue to
\* the end of the last
C30_DurationsCoverCues ==
    TimedImages =>
        RSum(image_durations, Len(image_durations))
            = RSub(parsed[Len(parsed)].end_seconds, parsed[1].start_seconds)

====
